---- MODULE Spec2Model ----
(***************************************************************************)
(* Model of pdf_to_excel (src/main.py): per page, the OCR token table is   *)
(* filtered, assembled into blocks, grouped into rows, normalised and      *)
(* stitched into combined_data; after the last page the combined table is  *)
(* written.                                                                *)
(*                                                                         *)
(* Text is a sequence of one-character strings, so that len, strip, join   *)
(* and the substring test are computed.  Python lists are objects: heap    *)
(* maps a reference to the list's current value, and combined_data and     *)
(* header_row hold references where the code binds a name to a list.       *)
(* Python indices are 0-based, sequence positions here are 1-based:        *)
(* Python column index 1 is position 2.                                    *)
(***************************************************************************)
EXTENDS Integers, Sequences, FiniteSets, TLC

\* ------------------------------------------------------------------ bounds
MaxPages == 3
MaxPageRows == 3
MaxCells == 4
MaxGeomBlocks == 2
MaxTokens == 3
MaxOrderTokens == 2
MaxHeaderRowCount == 3

\* ------------------------------------------------------- program constants
MinConf == 40
Tolerance == 10

\* "Seite: "
FooterMarker == <<"S", "e", "i", "t", "e", ":", " ">>

\* ------------------------------------------------------------------- text
Whitespace == {" ", "\n", "\t"}

Min(S) == CHOOSE x \in S : \A y \in S : x <= y
Max(S) == CHOOSE x \in S : \A y \in S : x >= y

\* str.strip()
Strip(s) ==
    LET keep == {i \in 1..Len(s) : s[i] \notin Whitespace}
    IN  IF keep = {} THEN <<>> ELSE SubSeq(s, Min(keep), Max(keep))

\* m in s
Contains(s, m) ==
    \E i \in 1..(Len(s) - Len(m) + 1) : SubSeq(s, i, i + Len(m) - 1) = m

\* sep.join(parts)
RECURSIVE Join(_, _)
Join(sep, parts) ==
    IF parts = <<>> THEN <<>>
    ELSE IF Len(parts) = 1 THEN parts[1]
    ELSE parts[1] \o sep \o Join(sep, Tail(parts))

\* sorted(set of integers)
SortedInts(S) ==
    [k \in 1..Cardinality(S) |-> CHOOSE x \in S : Cardinality({y \in S : y < x}) = k - 1]

\* sorted(s, key=lambda x: x['left']): stable, equal keys keep their order
SortByLeft(s) ==
    LET rank(i) == Cardinality({j \in 1..Len(s) :
                        \/ s[j].left < s[i].left
                        \/ (s[j].left = s[i].left /\ j < i)}) + 1
    IN  [k \in 1..Len(s) |-> s[CHOOSE i \in 1..Len(s) : rank(i) = k]]

\* list.sort(key=lambda x: x['top']): stable
SortByTop(s) ==
    LET rank(i) == Cardinality({j \in 1..Len(s) :
                        \/ s[j].top < s[i].top
                        \/ (s[j].top = s[i].top /\ j < i)}) + 1
    IN  [k \in 1..Len(s) |-> s[CHOOSE i \in 1..Len(s) : rank(i) = k]]

\* ------------------------------------------------------------ TokenFilter
\* tsv_output[conf > 40][text.str.len() > 0]
KeepToken(t) == t.conf > MinConf /\ Len(t.text) > 0

TokenFilter(tsv) == SelectSeq(tsv, KeepToken)

\* ---------------------------------------------------------- BlockAssembler
\* keys of block_data, in insertion order (first appearance of block_num)
FirstAppearances(toks) ==
    {i \in 1..Len(toks) :
        \A j \in 1..(i - 1) : toks[j].block_num # toks[i].block_num}

BlockNumsAt(toks, idx) == [k \in 1..Len(idx) |-> toks[idx[k]].block_num]

BlockIds(toks) == BlockNumsAt(toks, SortedInts(FirstAppearances(toks)))

BlockTokens(toks, b) == SelectSeq(toks, LAMBDA t : t.block_num = b)

\* block_data[b]['lines'][l], in arrival order
LineWords(btoks, l) == SelectSeq(btoks, LAMBDA t : t.line_num = l)

WordTexts(line_words) == [k \in 1..Len(line_words) |-> line_words[k].text]

\* ' '.join(word['text'] for word in sorted(line, key=left))
LineText(words) == Join(<<" ">>, WordTexts(SortByLeft(words)))

\* sorted(block['lines'].keys())
LineIds(btoks) == SortedInts({btoks[i].line_num : i \in 1..Len(btoks)})

LineTexts(btoks, ids) ==
    [k \in 1..Len(ids) |-> LineText(LineWords(btoks, ids[k]))]

\* '\n'.join(block_text)
BlockText(btoks) == Join(<<"\n">>, LineTexts(btoks, LineIds(btoks)))

\* the structured block of block b, btoks being its tokens
BlockRecord(b, btoks) ==
    [block_id |-> b,
     text     |-> BlockText(btoks),
     top      |-> Min({btoks[i].top : i \in 1..Len(btoks)}),
     left     |-> Min({btoks[i].left : i \in 1..Len(btoks)}),
     bottom   |-> Max({0} \cup {btoks[i].top + btoks[i].height : i \in 1..Len(btoks)}),
     right    |-> Max({0} \cup {btoks[i].left + btoks[i].width : i \in 1..Len(btoks)})]

StructuredBlock(toks, b) == BlockRecord(b, BlockTokens(toks, b))

\* block_data.items(), in insertion order
BlockItems(toks, ids) == [k \in 1..Len(ids) |-> StructuredBlock(toks, ids[k])]

StructuredBlocks(toks) == SortByTop(BlockItems(toks, BlockIds(toks)))

\* -------------------------------------------------------------- RowGrouper
\* mutant of StartsNewRow: >= for >
StartsNewRowAtTolerance(block, current_row, last_bottom) ==
    current_row = <<>> \/ block.top >= last_bottom - Tolerance

\* if not current_row or block['top'] > last_bottom - 10
StartsNewRow(block, current_row, last_bottom) ==
    current_row = <<>> \/ block.top > last_bottom - Tolerance

CloseRow(rws, current_row) ==
    IF current_row # <<>> THEN Append(rws, SortByLeft(current_row)) ELSE rws

RECURSIVE GroupSweep(_, _, _, _, _)
GroupSweep(blocks, i, rws, current_row, last_bottom) ==
    IF i > Len(blocks) THEN CloseRow(rws, current_row)
    ELSE LET block == blocks[i] IN
         IF StartsNewRow(block, current_row, last_bottom)
         THEN GroupSweep(blocks, i + 1, CloseRow(rws, current_row),
                         <<block>>, block.bottom)
         ELSE GroupSweep(blocks, i + 1, rws, Append(current_row, block),
                         IF block.bottom > last_bottom THEN block.bottom ELSE last_bottom)

RowGrouper(blocks) == GroupSweep(blocks, 1, <<>>, <<>>, 0)

TableData(rws) ==
    [r \in 1..Len(rws) |-> [c \in 1..Len(rws[r]) |-> rws[r][c].text]]

\* ----------------------------------------------------------- RowNormalizer
\* row + [''] * (max_cols - len(row))
PadTo(table, max_cols) ==
    [r \in 1..Len(table) |->
        table[r] \o [c \in 1..(max_cols - Len(table[r])) |-> <<>>]]

PadRows(table) == PadTo(table, Max({Len(table[r]) : r \in 1..Len(table)}))

HasFooter(row) == \E c \in 1..Len(row) : Contains(row[c], FooterMarker)

FooterFilter(prs) == SelectSeq(prs, LAMBDA row : ~HasFooter(row))

\* [j for j, cell in enumerate(row) if cell and str(cell).strip()]
NonEmptyCells(row) ==
    {j \in 1..Len(row) : row[j] # <<>> /\ Strip(row[j]) # <<>>}

\* mutant of IsSingleton: >= 1 for == 1
HasNonEmptyCell(row) == Cardinality(NonEmptyCells(row)) >= 1

\* len(non_empty_cells) == 1
IsSingleton(row) == Cardinality(NonEmptyCells(row)) = 1

SingletonContent(row) == row[CHOOSE j \in NonEmptyCells(row) : TRUE]

\* mutant of AppendContent: joined by a space
AppendContentWithSpace(merged_content, cell) == merged_content \o <<" ">> \o cell

\* merged_content += '\n' + next_row[next_non_empty[0]]
AppendContent(merged_content, cell) == merged_content \o <<"\n">> \o cell

\* the look-ahead loop: the index after the last absorbed row, and the text
RECURSIVE LookAhead(_, _, _)
LookAhead(prs, next_i, merged_content) ==
    IF next_i <= Len(prs) /\ IsSingleton(prs[next_i])
    THEN LookAhead(prs, next_i + 1,
                   AppendContent(merged_content, SingletonContent(prs[next_i])))
    ELSE [next_i |-> next_i, merged_content |-> merged_content]

\* new_row = [''] * len(row); new_row[1] = merged_content
NewRow(row, merged_content) ==
    [c \in 1..Len(row) |-> IF c = 2 THEN merged_content ELSE <<>>]

\* new_row[1] raises IndexError on a list of one element
NewRowRaises(row) == Len(row) < 2

\* padded_rows[i] = new_row; pop the absorbed rows i+1 .. la.next_i-1
ReplaceRun(prs, i, la) ==
    SubSeq(prs, 1, i - 1) \o <<NewRow(prs[i], la.merged_content)>>
        \o SubSeq(prs, la.next_i, Len(prs))

\* the loop of lines 161-198 from index i on; raised: new_row[1] failed
RECURSIVE MergeLoop(_, _)
MergeLoop(prs, i) ==
    IF i > Len(prs) THEN [raised |-> FALSE, rows |-> prs]
    ELSE IF IsSingleton(prs[i])
    THEN IF NewRowRaises(prs[i]) THEN [raised |-> TRUE, rows |-> prs]
         ELSE MergeLoop(ReplaceRun(prs, i,
                            LookAhead(prs, i + 1, SingletonContent(prs[i]))),
                        i + 1)
    ELSE MergeLoop(prs, i + 1)

MergeSingletons(prs) == MergeLoop(prs, 1)

RowNormalizer(table) == MergeSingletons(FooterFilter(PadRows(table)))

\* ------------------------------------------------------------ TableStitcher
\* s = [heap, combined_data, header_row, found_header]; pr is the reference
\* of this page's padded_rows list.
NoHeader == [kind |-> "none"]
HeaderRef(r) == [kind |-> "ref", ref |-> r]
HeaderVal(v) == [kind |-> "val", val |-> v]

HeaderValue(heap_, hr) ==
    IF hr.kind = "ref" THEN heap_[hr.ref]
    ELSE IF hr.kind = "val" THEN hr.val ELSE <<>>

\* bool(header_row)
Truthy(heap_, hr) == hr.kind # "none" /\ HeaderValue(heap_, hr) # <<>>

\* combined_data.extend(items)
Extend(s, items) ==
    [s EXCEPT !.heap = [@ EXCEPT ![s.combined_data] = @ \o items]]

\* lines 203-214
StitchTwoHeaderRows(s, pr) ==
    LET padded_rows == s.heap[pr] IN
    IF ~s.found_header
    THEN LET hr == IF Len(padded_rows) >= 2
                   THEN HeaderVal(SubSeq(padded_rows, 1, 2))
                   ELSE HeaderRef(pr)
         IN  [s EXCEPT !.combined_data = pr,
                       !.header_row = hr,
                       !.found_header = Truthy(s.heap, hr)]
    ELSE IF padded_rows # <<>> /\ Len(padded_rows) > 2
         THEN Extend(s, SubSeq(padded_rows, 3, Len(padded_rows)))
         ELSE IF padded_rows # <<>> /\ Len(padded_rows) > 0
              THEN Extend(s, padded_rows)
              ELSE s

\* mutant of StitchOneHeaderRow: the found_header test is dropped
StitchOneHeaderRowRebinding(s, pr) ==
    [s EXCEPT !.combined_data = pr,
              !.header_row = IF s.heap[pr] # <<>> THEN HeaderVal(s.heap[pr][1])
                             ELSE NoHeader,
              !.found_header = s.heap[pr] # <<>>]

\* lines 217-224
StitchOneHeaderRow(s, pr) ==
    LET padded_rows == s.heap[pr] IN
    IF ~s.found_header
    THEN LET hr == IF padded_rows # <<>> THEN HeaderVal(padded_rows[1]) ELSE NoHeader
         IN  [s EXCEPT !.combined_data = pr,
                       !.header_row = hr,
                       !.found_header = Truthy(s.heap, hr)]
    ELSE IF padded_rows # <<>> /\ Len(padded_rows) > 0
         THEN Extend(s, SubSeq(padded_rows, 2, Len(padded_rows)))
         ELSE s

\* lines 202-224, with the page's list allocated at pr
TableStitcher(s, pr, prs) ==
    StitchOneHeaderRow(
        StitchTwoHeaderRows([s EXCEPT !.heap = (pr :> prs) @@ @], pr), pr)

\* ------------------------------------------------------------------ state
VARIABLES
    pc,                 \* "loop" inside the page loop, "done" after the writer is closed
    num_pages,          \* len(doc)
    page_num,           \* pages processed so far
    ocr,                \* image_to_data's table for the last page (line 48)
    tsv_output,         \* the filtered table (lines 51-52)
    structured_blocks,  \* line 116
    rows,               \* line 138
    table_data,         \* line 143
    page_status,        \* "none", "no_table", "raised" or "ok" for the last page
    heap,               \* list objects
    combined_data,      \* reference of the combined list
    header_row,
    found_header,
    cleaned,            \* per page: padded_rows as it is after line 198
    csv,                \* per page file written at line 227
    errors,             \* pages whose except branch printed (line 230)
    excel               \* the sheet written at lines 233-246

vars == <<pc, num_pages, page_num, ocr, tsv_output, structured_blocks, rows,
          table_data, page_status, heap, combined_data, header_row,
          found_header, cleaned, csv, errors, excel>>

\* the value of combined_data
Combined == heap[combined_data]

\* ----------------------------------------------------- pages the OCR returns
Word(text, conf, left, top, height, block_num, line_num) ==
    [text |-> text, conf |-> conf, left |-> left, top |-> top, width |-> 8,
     height |-> height, block_num |-> block_num, line_num |-> line_num]

RECURSIVE Flatten(_)
Flatten(ss) == IF ss = <<>> THEN <<>> ELSE Head(ss) \o Flatten(Tail(ss))

\* A page laid out as a grid: cell i is one block of one line, in grid row
\* GridRow(i) and column GridCol(i); rows are 30 apart and 20 high, so that
\* each grid row is one row of the RowGrouper.
GridRow(cells, i) == Cardinality({j \in 1..i : cells[j].newrow})
GridCol(cells, i) == i - Max({j \in 1..i : cells[j].newrow})

GridPage(cells) ==
    Flatten([i \in 1..Len(cells) |->
        [k \in 1..Len(cells[i].words) |->
            Word(cells[i].words[k], 95,
                 50 * GridCol(cells, i) + 10 * (k - 1),
                 30 * GridRow(cells, i), 20, i, 1)]])

Cell(words, newrow) == [words |-> words, newrow |-> newrow]

Digits == <<"1", "2", "3", "4", "5", "6", "7", "8">>
SeiteColon == <<"S", "e", "i", "t", "e", ":">>

\* n rows of two cells
FullTable(n) ==
    GridPage(Flatten([r \in 1..n |->
        <<Cell(<<<<"a">>>>, TRUE), Cell(<<<<Digits[r]>>>>, FALSE)>>]))

\* one block alone on the page
SingleColumnPage == GridPage(<<Cell(<<<<"a">>>>, TRUE)>>)
\* a page holding only its footer line "Seite: 1"
FooterOnlyPage == GridPage(<<Cell(<<SeiteColon, <<"1">>>>, TRUE)>>)
\* a page whose only token has confidence 40
LowConfidencePage == <<Word(<<"a">>, MinConf, 0, 0, 8, 1, 1)>>
\* a table row, a remark wrapped over two lines, and the footer
RemarkPage ==
    GridPage(<<Cell(<<<<"a">>>>, TRUE), Cell(<<<<"b">>>>, FALSE),
               Cell(<<SeiteColon>>, TRUE),
               Cell(<<<<"1">>>>, TRUE),
               Cell(<<SeiteColon, <<"1">>>>, TRUE)>>)

DocPages ==
    {FullTable(n) : n \in 0..MaxPageRows}
        \cup {SingleColumnPage, FooterOnlyPage, LowConfidencePage, RemarkPage}

\* grid pages of at most MaxCells cells
CellWords == {<<<<"a">>>>, <<<<" ">>>>, <<SeiteColon, <<"1">>>>}

CellLayouts(n) ==
    {f \in [1..n -> [words : CellWords, newrow : BOOLEAN]] : n > 0 => f[1].newrow}

\* at most MaxGeomBlocks one-word blocks at varied positions
GeomLayouts(n) ==
    [1..n -> [top : {0, 10, 12, 30}, height : {8, 20}, left : {0, 50}]]

GeomPage(g) ==
    [i \in 1..Len(g) |-> Word(<<"a">>, 95, g[i].left, g[i].top, g[i].height, i, 1)]

\* tokens at the confidence threshold, with empty and blank text
FilterLayouts(n) ==
    [1..n -> [text : {<<>>, <<" ">>, <<"a">>}, conf : {MinConf, MinConf + 1}]]

FilterPage(g) ==
    [i \in 1..Len(g) |-> Word(g[i].text, g[i].conf, 50 * i, 0, 8, i, 1)]

\* tokens in every arrival order, with shared lefts, lines, blocks and tops
OrderWords ==
    {Word(t, 95, l, 0, h, b, ln) :
        t \in {<<"a">>, <<"b">>}, l \in {0, 5}, h \in {8, 20},
        b \in {1, 2}, ln \in {1, 2}}

OrderPages(n) == [1..n -> OrderWords]

\* ---------------------------------------------------------------- actions
InitWith(n) ==
    /\ pc = "loop"
    /\ num_pages = n
    /\ page_num = 0
    /\ ocr = <<>>
    /\ tsv_output = <<>>
    /\ structured_blocks = <<>>
    /\ rows = <<>>
    /\ table_data = <<>>
    /\ page_status = "none"
    /\ heap = (0 :> <<>>)
    /\ combined_data = 0
    /\ header_row = NoHeader
    /\ found_header = FALSE
    /\ cleaned = <<>>
    /\ csv = <<>>
    /\ errors = <<>>
    /\ excel = [sheet |-> "none", rows |-> <<>>]

Init == \E n \in 0..MaxPages : InitWith(n)

InitOnePage == InitWith(1)

\* for page_num in range(len(doc))
InLoop == pc = "loop" /\ page_num < num_pages

\* one iteration of the page loop (lines 31-230) on the OCR result raw
ProcessPage(raw) ==
    \E tsv \in {TokenFilter(raw)} :
    \E sb \in {StructuredBlocks(tsv)} :
    \E rws \in {RowGrouper(sb)} :
    \E td \in {TableData(rws)} :
        /\ ocr' = raw
        /\ tsv_output' = tsv
        /\ structured_blocks' = sb
        /\ rows' = rws
        /\ table_data' = td
        /\ page_num' = page_num + 1
        /\ UNCHANGED <<pc, num_pages, excel>>
        /\ IF td = <<>>
           THEN \* if table_data: is false
                /\ page_status' = "no_table"
                /\ cleaned' = Append(cleaned, <<>>)
                /\ UNCHANGED <<heap, combined_data, header_row, found_header,
                               csv, errors>>
           ELSE \E m \in {RowNormalizer(td)} :
                IF m.raised
                THEN \* except Exception
                     /\ page_status' = "raised"
                     /\ cleaned' = Append(cleaned, <<>>)
                     /\ errors' = Append(errors, page_num + 1)
                     /\ UNCHANGED <<heap, combined_data, header_row,
                                    found_header, csv>>
                ELSE \E s \in {TableStitcher(
                                  [heap |-> heap, combined_data |-> combined_data,
                                   header_row |-> header_row,
                                   found_header |-> found_header],
                                  page_num + 1, m.rows)} :
                     /\ page_status' = "ok"
                     /\ cleaned' = Append(cleaned, m.rows)
                     /\ heap' = s.heap
                     /\ combined_data' = s.combined_data
                     /\ header_row' = s.header_row
                     /\ found_header' = s.found_header
                     \* to_csv(padded_rows), line 227
                     /\ csv' = Append(csv, [page |-> page_num + 1,
                                            rows |-> s.heap[page_num + 1]])
                     /\ UNCHANGED errors

\* lines 232-250
Finish ==
    /\ pc = "loop"
    /\ page_num = num_pages
    /\ pc' = "done"
    /\ excel' = IF Combined # <<>>
                THEN [sheet |-> "Combined_Table", rows |-> Combined]
                ELSE [sheet |-> "No_Data", rows |-> <<>>]
    /\ UNCHANGED <<num_pages, page_num, ocr, tsv_output, structured_blocks, rows,
                   table_data, page_status, heap, combined_data, header_row,
                   found_header, cleaned, csv, errors>>

OcrDocPage ==
    /\ InLoop
    /\ \E raw \in DocPages : ProcessPage(raw)

OcrCellPage ==
    /\ InLoop
    /\ \E n \in 0..MaxCells : \E cells \in CellLayouts(n) : ProcessPage(GridPage(cells))

OcrGeomPage ==
    /\ InLoop
    /\ \E n \in 0..MaxGeomBlocks : \E g \in GeomLayouts(n) : ProcessPage(GeomPage(g))

OcrFilterPage ==
    /\ InLoop
    /\ \E n \in 0..MaxTokens : \E g \in FilterLayouts(n) : ProcessPage(FilterPage(g))

OcrOrderPage ==
    /\ InLoop
    /\ \E n \in 0..MaxOrderTokens : \E raw \in OrderPages(n) : ProcessPage(raw)

Next == OcrDocPage \/ Finish

NextCells == OcrCellPage \/ Finish

NextGeom == OcrGeomPage \/ Finish

NextFilter == OcrFilterPage \/ Finish

NextOrder == OcrOrderPage \/ Finish

\* a document of up to MaxPages pages
Spec == Init /\ [][Next]_vars

\* one page laid out as a grid of cells
SpecCells == InitOnePage /\ [][NextCells]_vars

\* one page of one-word blocks at varied positions
SpecGeom == InitOnePage /\ [][NextGeom]_vars

\* one page of raw tokens at the filter's thresholds
SpecFilter == InitOnePage /\ [][NextFilter]_vars

\* one page of raw tokens in every arrival order
SpecOrder == InitOnePage /\ [][NextOrder]_vars

\* ----------------------------------------------------------------- claims
\* the first page whose cleaned row list is not empty, 0 when there is none
YieldingPages == {p \in 1..Len(cleaned) : cleaned[p] # <<>>}
FirstYield == IF YieldingPages = {} THEN 0 ELSE Min(YieldingPages)

\* what a page after the first adds, for header_row_count H
Contribution(n, H) == IF n > H THEN n - H ELSE n

RECURSIVE LaterRows(_, _)
LaterRows(p, H) ==
    IF p > Len(cleaned) THEN 0
    ELSE Contribution(Len(cleaned[p]), H) + LaterRows(p + 1, H)

ExpectedRowCount(H) ==
    IF FirstYield = 0 THEN 0
    ELSE Len(cleaned[FirstYield]) + LaterRows(FirstYield + 1, H)

\* C1: for one fixed header_row_count, the final combined row count is the
\* first yielding page's cleaned row count plus, for every later page,
\* n - header_row_count when n > header_row_count and n otherwise.
C1_RowCount ==
    pc = "done" =>
        \E H \in 0..MaxHeaderRowCount : Len(Combined) = ExpectedRowCount(H)

\* C2: right after the first page that yields cleaned rows has been stitched,
\* the combined table is exactly that page's cleaned row list.
C2_FirstPageInitialises ==
    (page_num > 0 /\ FirstYield = page_num) => Combined = cleaned[page_num]

\* C10: the row list written for a page after stitching is the page's
\* RowNormalizer result, and no page's list is the accumulator's list.
C10_PageTablesSeparate ==
    \A k \in 1..Len(csv) :
        /\ csv[k].rows = cleaned[csv[k].page]
        /\ combined_data # csv[k].page

\* C3: a page that yields no cleaned rows, or whose processing raises, leaves
\* the combined table, header_row and found_header as they were and the loop
\* goes on; the writer is closed only after the last page, the sheet then
\* holds the combined table, which is empty for a document of no pages.
C3_FailureIsolation ==
    /\ [][(page_num' = page_num + 1 /\ cleaned'[page_num'] = <<>>) =>
            /\ Combined' = Combined
            /\ header_row' = header_row
            /\ found_header' = found_header
            /\ pc' = "loop"]_vars
    /\ [](pc = "done" =>
            /\ page_num = num_pages
            /\ excel.sheet # "none"
            /\ excel.rows = Combined
            /\ (num_pages = 0 => excel.rows = <<>>))

\* a raising page between two yielding pages, all stitched and written
C3_Witness ==
    /\ pc = "done"
    /\ page_num = 3
    /\ cleaned[1] # <<>> /\ errors = <<2>> /\ cleaned[3] # <<>>
    /\ Len(excel.rows) > Len(cleaned[1])

\* the row of `rows` that holds block b
RowOf(b) ==
    CHOOSE r \in 1..Len(rows) : \E c \in 1..Len(rows[r]) : rows[r][c].block_id = b.block_id

\* block i of structured_blocks opened its row: it is the only block of
\* current_row when block i + 1 is examined
OpensRow(i) ==
    i = 1 \/ RowOf(structured_blocks[i]) # RowOf(structured_blocks[i - 1])

SameRow(i) == RowOf(structured_blocks[i]) = RowOf(structured_blocks[i + 1])

Gap(i) == structured_blocks[i + 1].top - structured_blocks[i].bottom

\* C4 as stated: |top_2 - bottom_1| < 10 gives the same row,
\* top_2 - bottom_1 >= 10 gives different rows.
C4_Original ==
    \A i \in 1..(Len(structured_blocks) - 1) :
        OpensRow(i) =>
            /\ (Gap(i) < 10 /\ Gap(i) > -10) => SameRow(i)
            /\ Gap(i) >= 10 => ~SameRow(i)

\* C4 amended: top_2 <= bottom_1 - 10 gives the same row, top_2 > bottom_1 - 10
\* gives different rows.
C4_Amended ==
    \A i \in 1..(Len(structured_blocks) - 1) :
        OpensRow(i) =>
            /\ Gap(i) <= -10 => SameRow(i)
            /\ Gap(i) > -10 => ~SameRow(i)

\* two blocks closer than the tolerance, in different rows
C4_Witness ==
    /\ Len(structured_blocks) = 2
    /\ Gap(1) < 10 /\ Gap(1) > -10
    /\ Len(rows) = 2

\* C5: a token is retained iff confidence > 40 and len(text.strip()) > 0,
\* in the order of arrival.
C5_Original ==
    tsv_output = SelectSeq(ocr, LAMBDA t : t.conf > 40 /\ Len(Strip(t.text)) > 0)

ArrivalOrders(n) == {f \in [1..n -> 1..n] : \A i, j \in 1..n : f[i] = f[j] => i = j}

Permuted(seq, f) == [k \in 1..Len(seq) |-> seq[f[k]]]

BlockTexts(sb) == [k \in 1..Len(sb) |-> sb[k].text]

\* the same blocks, the same texts in top-sorted order, the same rows of texts
SameAssembly(sb) ==
    /\ {sb[k] : k \in 1..Len(sb)}
          = {structured_blocks[k] : k \in 1..Len(structured_blocks)}
    /\ BlockTexts(sb) = BlockTexts(structured_blocks)
    /\ TableData(RowGrouper(sb)) = table_data

\* C6: every arrival order of the page's tokens gives the same text for each
\* block, the same top-sorted list of block texts and the same rows.
C6_Original ==
    \A f \in ArrivalOrders(Len(ocr)) :
        SameAssembly(StructuredBlocks(TokenFilter(Permuted(ocr, f))))

\* a row with exactly one non-empty cell
OneNonEmptyCell(row) ==
    Cardinality({c \in 1..Len(row) : Strip(row[c]) # <<>>}) = 1

\* the length of the longest prefix of singleton rows
RECURSIVE RunLength(_)
RunLength(prs) ==
    IF prs # <<>> /\ OneNonEmptyCell(prs[1]) THEN 1 + RunLength(Tail(prs)) ELSE 0

RunContents(run) ==
    [k \in 1..Len(run) |->
        run[k][CHOOSE c \in 1..Len(run[k]) : Strip(run[k][c]) # <<>>]]

\* the one row a run is replaced by: the contents joined by newline at
\* column index 1, every other cell empty
RunRow(run) ==
    [c \in 1..Len(run[1]) |-> IF c = 2 THEN Join(<<"\n">>, RunContents(run)) ELSE <<>>]

RECURSIVE Collapsed(_)
CollapsedAfter(prs, n) ==
    IF n = 0 THEN <<prs[1]>> \o Collapsed(Tail(prs))
    ELSE <<RunRow(SubSeq(prs, 1, n))>> \o Collapsed(SubSeq(prs, n + 1, Len(prs)))

Collapsed(prs) == IF prs = <<>> THEN <<>> ELSE CollapsedAfter(prs, RunLength(prs))

\* C7: for every padded page table, of any column count from 1 on, merging
\* replaces each maximal run of singleton rows by one row and leaves the other
\* rows as they are.
C7_Original ==
    page_status \in {"ok", "raised"} =>
        /\ page_status = "ok"
        /\ cleaned[page_num] = Collapsed(FooterFilter(PadRows(table_data)))

AllRows ==
    {Combined[r] : r \in 1..Len(Combined)}
        \cup {excel.rows[r] : r \in 1..Len(excel.rows)}
        \cup UNION {{cleaned[p][r] : r \in 1..Len(cleaned[p])} : p \in 1..Len(cleaned)}
        \cup UNION {{csv[k].rows[r] : r \in 1..Len(csv[k].rows)} : k \in 1..Len(csv)}

\* C8: no row of a page table, of a written page file, of the combined table
\* or of the sheet has a cell containing "Seite: ".
C8_NoFooterRows ==
    \A row \in AllRows : \A c \in 1..Len(row) : ~Contains(row[c], FooterMarker)

\* a page whose footer row was dropped and whose wrapped remark "Seite:" / "1"
\* was merged into one cell of the combined table
C8_Witness ==
    /\ page_status = "ok"
    /\ \E r \in 1..Len(table_data) : HasFooter(table_data[r])
    /\ \E r \in 1..Len(Combined) : \E c \in 1..Len(Combined[r]) :
          Contains(Combined[r][c], SeiteColon \o <<"\n">>)

\* uniform width, no footer row, no singleton row
AlreadyNormalized(table) ==
    /\ \A r \in 1..Len(table) : Len(table[r]) = Len(table[1])
    /\ \A r \in 1..Len(table) : ~HasFooter(table[r])
    /\ \A r \in 1..Len(table) : ~OneNonEmptyCell(table[r])

\* C9: RowNormalizer returns an already normalized page table unchanged.
C9_Idempotent ==
    (table_data # <<>> /\ AlreadyNormalized(table_data)) =>
        (page_status = "ok" /\ cleaned[page_num] = table_data)

\* an already normalized table of two rows of two cells went through
C9_Witness ==
    /\ page_status = "ok"
    /\ Len(table_data) = 2 /\ Len(table_data[1]) = 2
    /\ AlreadyNormalized(table_data)
    /\ cleaned[page_num] = table_data

====
